---- MODULE Spec2Model ----
(***************************************************************************)
(* Model of the recompute engine (observers, memoized selectors, Context), *)
(* translated from the class-based implementation in src/unnamed/part_005  *)
(* (lines 217-486: DefaultCache, Computation, Observer, Selector, Context).*)
(*                                                                         *)
(* A selector invocation is one action: the whole synchronous call tree    *)
(* (change detection, compute, nested selectors, observers, merging) is    *)
(* evaluated by the recursive operators invoke / computeFunc.  The user    *)
(* code (readers, compute functions, equality predicates) is a fixed set   *)
(* of fixtures written after the tests of src/test/test_selector.js.       *)
(*                                                                         *)
(* Spec runs one Context with setState and selector calls; SpecApi adds    *)
(* mock and clearCache; SpecContexts runs two Contexts, which share the    *)
(* static Context.callStack and Context.numObservers.                      *)
(***************************************************************************)
EXTENDS Integers, Sequences, FiniteSets, TLC

\* ------------------------------------------------------------------ bounds
\* state fields a, b range over 0..MaxVal
MaxVal == 1
\* selector arguments range over 0..MaxArg
MaxArg == 1
\* compute runs of one selector are capped (guard of InvokeSelector)
MaxCount == 3
\* observers created after the fixtures (guard of CreateObserver)
MaxCreated == 1

\* --------------------------------------------------------------- JS values
Num(n) == [t |-> "number", v |-> n]
\* the string of the decimal digits of n
Str(n) == [t |-> "string", v |-> n]
Undefined == [t |-> "undefined", v |-> 0]
Null == [t |-> "null", v |-> 0]
Bool(b) == [t |-> "boolean", v |-> IF b THEN 1 ELSE 0]
\* {} and []
EmptyObject == [t |-> "object", v |-> 0]
EmptyArray == [t |-> "array", v |-> 0]
\* a string given by its characters
Text(chars) == [t |-> "string", v |-> 0, chars |-> chars]

\* (mutant) strings count as primitive values
isPrimitive_WithStrings(value) ==
    \/ value.t \in {"undefined", "null"}
    \/ value.t = "number"
    \/ value.t = "boolean"
    \/ value.t = "string"

isPrimitive(value) ==
    \/ value.t \in {"undefined", "null"}
    \/ value.t = "number"
    \/ value.t = "boolean"

\* `${value}` for the values of the model
TemplateString(value) ==
    CASE value.t \in {"number", "string"} -> ToString(value.v)
      [] value.t = "boolean" -> IF value.v = 1 THEN "true" ELSE "false"
      [] value.t = "object" -> "[object Object]"
      [] value.t = "array" -> ""
      [] OTHER -> value.t

\* JSON.stringify(value) for the values of the model
JSONStringify(value) ==
    CASE value.t = "number" -> ToString(value.v)
      [] value.t = "string" -> "\"" \o ToString(value.v) \o "\""
      [] value.t = "boolean" -> IF value.v = 1 THEN "true" ELSE "false"
      [] value.t = "object" -> "{}"
      [] value.t = "array" -> "[]"
      [] OTHER -> "null"

\* JSON.stringify(arguments): an arguments object is serialized as an
\* object with the keys "0", "1", ...; undefined members are omitted
JSONMember(i, value, rest) ==
    IF value.t = "undefined" THEN rest
    ELSE "\"" \o ToString(i - 1) \o "\":" \o JSONStringify(value)
         \o (IF rest = "" THEN "" ELSE "," \o rest)

RECURSIVE JSONMembers(_, _)
JSONMembers(args, i) ==
    IF i > Len(args) THEN ""
    ELSE JSONMember(i, args[i], JSONMembers(args, i + 1))

JSONStringifyArguments(args) == "{" \o JSONMembers(args, 1) \o "}"

\* Symbol('undefined'): a key no string conversion produces
_UNDEFINED_ == "Symbol(undefined)"

defaultSerialize(args) ==
    IF Len(args) = 0 THEN _UNDEFINED_
    ELSE IF Len(args) = 1 /\ isPrimitive(args[1]) THEN TemplateString(args[1])
    ELSE JSONStringifyArguments(args)

\* (mutant) the key is the observer's id, whatever the argument
getObserverKey_IdOnly(id, arg) == ToString(id)

getObserverKey(id, arg) ==
    IF arg = Undefined THEN ToString(id)
    ELSE IF isPrimitive(arg) THEN ToString(id) \o ":" \o TemplateString(arg)
    ELSE ToString(id) \o ":" \o JSONStringify(arg)

\* ------------------------------------------------------- fixtures (user code)
\* observers, in creation order: the id is ++Context.numObservers
getA == 1
getB == 2
getStateValue == 3
Observers == {getA, getB, getStateValue}
\* an observer with an argument: (state, id) => state.persons[id].age
getAge == 4
\* observers of two contexts: ctx1.createObserver(state => state.foo) and
\* ctx2.createObserver(state => state.bar)
getA1 == 5
getA2 == 6
\* an observer that reads no state: it returns the sum of the arguments it
\* receives after the state
sumAll == 7
\* () => state.label and () => state.total
getLabel == 8
getTotal == 9
\* () => value, for a variable of the test that is modelled as a state field
getter == 10
AllObservers ==
    Observers \cup {getAge, getA1, getA2, sumAll, getLabel, getTotal, getter}

\* the Context that created the observer (this.ctx of the Observer)
ObserverContext(o) == IF o = getA2 THEN 2 ELSE 1

\* the contexts built by the test suite: which selectors were created
Fixtures ==
    { {"getRes", "getSum"},          \* branch on an observed value, and a parent
      {"getResArg"},                 \* branch on the argument
      {"getValue"},                  \* observer with a custom isEqual
      {"mayThrow", "alwaysThrow"} }  \* compute functions that throw

\* contexts whose selectors are also mocked and cleared
MockFixtures ==
    { {"getYoungest"},                        \* one observer, two arguments
      {"timesA"},                             \* times => getA() * times
      {"timesTwoA", "timesThreeB", "sumAB"} } \* sumAB = timesTwoA() + timesThreeB()
\* contexts of the first kind whose selectors' caches are also cleared
ClearedFixtures == { {"getRes", "getSum"}, {"mayThrow", "alwaysThrow"} }
ApiFixtures == ClearedFixtures \cup MockFixtures
\* the selectors on which the tests install mocks
MockTargets == {"getYoungest", "timesA", "timesTwoA", "timesThreeB"}
\* the selectors the tests call: the children of sumAB are only called by
\* sumAB
CallTargets(fixture) == fixture \ {"timesTwoA", "timesThreeB"}

\* two contexts: selA1A2 and selA1 are selectors of ctx1, selA2A1 and selA2 of
\* ctx2; selA1A2 and selA2A1 read one observer of each context
ContextFixtures == { {"selA1A2", "selA2"}, {"selA2A1", "selA1"} }

\* contexts whose observers are also invoked from outside any computation:
\* getA2B = getA() + get2B() with get2B = getB() * 2, and two selectors that
\* call sumAll with one and with two arguments
ObserverFixtures ==
    { {"mayThrow", "alwaysThrow"}, {"getRes", "getSum"}, {"get2B", "getA2B"},
      {"sumOne", "sumTwo"}, {"mayThrow", "tryMayThrow"} }
\* the observers of these contexts
FixtureObservers(fixture) ==
    IF "sumOne" \in fixture THEN {getA, sumAll} ELSE {getA, getB}

\* contexts whose selector is called with arguments of every type, or is
\* created with the option cache, or returns what its observer reads:
\* selector = createSelector(() => getter())
OptionFixtures == { {"kindOf"}, {"getTotalStr"}, {"selector"} }

AllSelectors ==
    UNION (Fixtures \cup ApiFixtures \cup ContextFixtures \cup ObserverFixtures
           \cup OptionFixtures)

\* the Context that created the selector (this.ctx of the Selector)
SelectorContext(s) == IF s \in {"selA2A1", "selA2"} THEN 2 ELSE 1

\* the argument tuples the selectors are called with: getResArg takes a
\* number, or the string '0' (which JS arithmetic reads as the number 0)
\* the calls of kindOf: kindOf(), kindOf(undefined), kindOf(null), kindOf(2),
\* kindOf('2'), kindOf(false), kindOf({}) and kindOf([])
KindArgs ==
    { << >>, <<Undefined>>, <<Null>>, <<Num(2)>>, <<Str(2)>>, <<Bool(FALSE)>>,
      <<EmptyObject>>, <<EmptyArray>> }

ArgTuples(s) ==
    IF s = "getResArg" THEN { <<Num(c)>> : c \in 0..MaxArg } \cup { <<Str(0)>> }
    ELSE IF s = "timesA" THEN { <<Num(c)>> : c \in 1..(MaxArg + 1) }
    ELSE IF s = "kindOf" THEN KindArgs
    ELSE IF s = "getTotalStr" THEN { <<Num(c)>> : c \in 0..MaxArg }
    ELSE { << >> }

States ==
    [a : { Num(n) : n \in 0..MaxVal },
     b : { Num(n) : n \in 0..MaxVal },
     value : { Num(0), Str(0), Num(1) }]

\* the states used with the selectors of ApiFixtures: the fields that no
\* reader of the fixture reads keep one value
ApiStates(fixture) ==
    IF "sumAB" \in fixture
    THEN { st \in States : st.value = Num(0) /\ st.a = Num(0) }
    ELSE { st \in States : st.value = Num(0) }

\* the values that JS conditions read as false
FalsyValues == { Undefined, Null, Num(0), Bool(FALSE), Text("") }

\* the states used with the selectors of OptionFixtures: { label: '' },
\* { value: v } for the falsy values v and a number, and { total: n } for
\* the amounts n
OptionStates(fixture) ==
    IF "kindOf" \in fixture THEN { [label |-> Text("")] }
    ELSE IF "selector" \in fixture
    THEN [value : FalsyValues \cup { Num(n) : n \in 1..MaxVal }]
    ELSE [total : { Num(n) : n \in 0..MaxVal }]

\* the states of the two contexts of ContextFixtures; a field that holds
\* undefined stands for a state object without that field.  The Context of
\* the selector that reads both observers may have a field of the same name
\* as the field read in the other Context
States1(fixture) ==
    [foo : { Str(1), Str(2) },
     bar : IF "selA1A2" \in fixture THEN { Undefined, Str(2) } ELSE { Undefined }]
States2(fixture) ==
    [foo : IF "selA2A1" \in fixture THEN { Undefined, Str(1) } ELSE { Undefined },
     bar : { Str(2), Str(3) }]
\* the state of the second context when no selector uses it
NoState == [foo |-> Undefined, bar |-> Undefined]

\* mock(...).result(value) is called with these values
MockValues == { Num(5), Num(6) }

\* resultFunc of each observer
resultFunc(o, st, arg) ==
    CASE o = getA -> st.a
      [] o = getB -> st.b
      [] o = getStateValue -> st.value
      [] o = getAge -> IF arg.v = 0 THEN st.a ELSE st.b
      [] o = getA1 -> st.foo
      [] o = getA2 -> st.bar
      [] o = sumAll -> IF arg = Undefined THEN Num(0) ELSE Num(0 + arg.v)
      [] o = getLabel -> st.label
      [] o = getTotal -> st.total
      [] o = getter -> st.value

defaultEquals(x, y) == x = y
\* isSimilar of the test suite: (a, b) => a == b
isSimilar(x, y) == x.v = y.v
isEqual(o, x, y) ==
    IF o = getStateValue THEN isSimilar(x, y) ELSE defaultEquals(x, y)

\* ------------------------------------------------------------- DefaultCache
NoComputation == [present |-> FALSE]
DefaultCache == [k \in {} |-> NoComputation]
CacheGet(c, key) == IF key \in DOMAIN c THEN c[key] ELSE NoComputation
CacheSet(c, key, value) ==
    [k \in DOMAIN c \cup {key} |-> IF k = key THEN value ELSE c[k]]
CacheClear(c) == DefaultCache

\* -------------------------------------------------------------- Computation
\* observersIdx is a JS object: a sequence of entries in property order
\* (integer-like keys ascending, then the other keys in insertion order)
NoResult == Undefined
NewComputation ==
    [present |-> TRUE, result |-> NoResult,
     observersIdx |-> << >>, observersList |-> << >>]

IsIndexKey(e) == e.arg = Undefined

HasKey(idx, key) == \E i \in 1..Len(idx) : idx[i].key = key

\* obj[key] = value
ObjectSet(idx, e) ==
    IF HasKey(idx, e.key)
    THEN [i \in 1..Len(idx) |-> IF idx[i].key = e.key THEN e ELSE idx[i]]
    ELSE IF IsIndexKey(e)
    THEN LET before == SelectSeq(idx, LAMBDA x : IsIndexKey(x) /\ x.id < e.id)
             after == SelectSeq(idx, LAMBDA x : ~(IsIndexKey(x) /\ x.id < e.id))
         IN before \o <<e>> \o after
    ELSE Append(idx, e)

RECURSIVE ObjectAssign(_, _)
ObjectAssign(target, source) ==
    IF source = << >> THEN target
    ELSE ObjectAssign(ObjectSet(target, Head(source)), Tail(source))

ObjectValues(idx) == idx
ObjectKeys(idx) == [i \in 1..Len(idx) |-> idx[i].key]

\* the index after a write, and the iteration list regenerated from it
WithIndex(comp, idx) ==
    [comp EXCEPT !.observersIdx = idx, !.observersList = ObjectValues(idx)]

addObserver(comp, observer) ==
    WithIndex(comp,
        ObjectSet(comp.observersIdx,
            [observer EXCEPT !.key = getObserverKey(observer.id, observer.arg)]))

mergeObservers(comp, other) ==
    WithIndex(comp, ObjectAssign(comp.observersIdx, other.observersIdx))

\* (mutant) the observer's own isEqual is ignored
ObserverChanged_StrictEquality(observer, st) ==
    ~defaultEquals(resultFunc(observer.id, st, observer.arg), observer.result)

\* one iteration of the loop of dependenciesChanged
ObserverChanged(observer, st) ==
    ~isEqual(observer.id, resultFunc(observer.id, st, observer.arg), observer.result)

\* (mutant) only the first recorded observer is replayed
dependenciesChangedFrom_FirstOnly(list, i, st) ==
    IF i > Len(list) THEN FALSE ELSE ObserverChanged(list[i], st)

RECURSIVE dependenciesChangedFrom(_, _, _)
dependenciesChangedFrom(list, i, st) ==
    IF i > Len(list) THEN FALSE
    ELSE IF ObserverChanged(list[i], st) THEN TRUE
    ELSE dependenciesChangedFrom(list, i + 1, st)

\* (mutant) the loop of dependenciesChanged goes through the whole list
Replayed_WholeList(list, i, st) == Len(list)

\* how many observers of the list the loop of dependenciesChanged replays
\* (calls resultFunc and isEqual of) when it starts at index i: it returns at
\* the first one whose value changed
RECURSIVE Replayed(_, _, _)
Replayed(list, i, st) ==
    IF i > Len(list) THEN Len(list)
    ELSE IF ObserverChanged(list[i], st) THEN i
    ELSE Replayed(list, i + 1, st)

\* (mutant) a Computation without recorded observers counts as changed
dependenciesChanged_EmptyChanged(comp, st) ==
    comp.observersList = << >> \/ dependenciesChangedFrom(comp.observersList, 1, st)

dependenciesChanged(comp, st) == dependenciesChangedFrom(comp.observersList, 1, st)

getObserversIds(comp) == ObjectKeys(comp.observersIdx)

\* ------------------------------------------------------------ machine state
VARIABLES
    selectors,        \* the selectors created by the test
    state,            \* Context.state of the (first) Context
    state2,           \* Context.state of the second Context
    numObservers,     \* Context.numObservers
    callStack,        \* Context.callStack: the Computations being built
    cache,            \* Selector.cache, per selector
    recomputations,   \* Selector.recomputations, per selector
    called,           \* per selector, how many times its compute function ran
    last,             \* the last operation and its outcome
    history,          \* per selector, the argument tuples it was invoked with
                      \* while the state was never set after its first call
    threw,            \* the calls <<selector, args>> whose latest run threw
    mocked,           \* the mocks <<selector, args, value>> installed and not
                      \* replaced or cleared since
    cleared,          \* per selector, what happened since its last clearCache
    observerIds,      \* the observers created so far: Context and proxy id
    observers,        \* src/index.js: the list `observers` of each selector
    observersByKey,   \* src/index.js: the object `observersByKey` of each
                      \* selector, in property order
    observerResultsCache  \* src/index.js: per selector, the value stored
                          \* under each observer key

vars == <<selectors, state, state2, numObservers, callStack, cache,
          recomputations, called, last, history, threw, mocked, cleared,
          observerIds, observers, observersByKey, observerResultsCache>>

\* the engine's state during one operation; observed and invoked log the
\* observer keys read and the selector calls made by the operation, reads
\* logs every call <<observer, argument, value>> of a reader, passes logs
\* every run of dependenciesChanged with the number of observers it
\* replayed, order lists the observer keys in the order of their first call,
\* and error is the message of the Error being thrown
Machine ==
    [state |-> state, state2 |-> state2, callStack |-> callStack, cache |-> cache,
     recomputations |-> recomputations, called |-> called,
     observed |-> {}, invoked |-> {}, reads |-> {}, passes |-> {},
     order |-> << >>, error |-> ""]

\* (mutant) all contexts share the state of the first one
StateOf_Shared(m, ctx) == m.state

\* ctx.state
StateOf(m, ctx) == IF ctx = 2 THEN m.state2 ELSE m.state

\* what a call gives: the engine after it and the value returned or thrown
Return(m, v) == [m |-> m, val |-> v, thrown |-> FALSE]
\* (mutant) an exception empties the call-stack
Throw_EmptiesStack(m) ==
    [m |-> [m EXCEPT !.callStack = << >>], val |-> Undefined, thrown |-> TRUE]
Throw(m) == [m |-> m, val |-> Undefined, thrown |-> TRUE]

\* throw Error(message)
ThrowError(m, message) == Throw([m EXCEPT !.error = message])

\* ---------------------------------------------------------------- Observer
\* the keys called so far, in the order of their first call
Called(order, key) ==
    IF \E i \in 1..Len(order) : order[i] = key THEN order ELSE Append(order, key)

\* (mutant) the call is recorded in the innermost Computation only
Register_TopOnly(m, observer) ==
    [m |-> [m EXCEPT !.callStack =
                [i \in 1..Len(m.callStack) |->
                    IF i < Len(m.callStack) THEN m.callStack[i]
                    ELSE [m.callStack[i] EXCEPT !.comp = addObserver(@, observer)]],
                     !.observed = @ \cup {getObserverKey(observer.id, observer.arg)},
                     !.reads = @ \cup {<<observer.id, observer.arg,
                                          observer.result>>},
                     !.order = Called(@, getObserverKey(observer.id, observer.arg))],
     val |-> observer.result, thrown |-> FALSE]

\* Observer.invoke: read the state, register on every frame of the stack
Register(m, observer) ==
    [m |-> [m EXCEPT !.callStack =
                [i \in 1..Len(m.callStack) |->
                    [m.callStack[i] EXCEPT !.comp = addObserver(@, observer)]],
                     !.observed = @ \cup {getObserverKey(observer.id, observer.arg)},
                     !.reads = @ \cup {<<observer.id, observer.arg,
                                          observer.result>>},
                     !.order = Called(@, getObserverKey(observer.id, observer.arg))],
     val |-> observer.result, thrown |-> FALSE]

\* (mutant) the observer returns the value that the Computation being built
\* recorded for it, when there is one
ObserverInvoke_Memoized(m, o, arg) ==
    Register(m, [key |-> "", id |-> o, arg |-> arg,
                 result |->
                    IF /\ Len(m.callStack) > 0
                       /\ \E i \in 1..Len(m.callStack[Len(m.callStack)].comp.observersList) :
                             m.callStack[Len(m.callStack)].comp.observersList[i].key
                                 = getObserverKey(o, arg)
                    THEN m.callStack[Len(m.callStack)].comp.observersList[
                             CHOOSE i \in 1..Len(m.callStack[Len(m.callStack)].comp.observersList) :
                                 m.callStack[Len(m.callStack)].comp.observersList[i].key
                                     = getObserverKey(o, arg)].result
                    ELSE resultFunc(o, StateOf(m, ObserverContext(o)), arg)])

ObserverInvoke(m, o, arg) ==
    Register(m, [key |-> "", id |-> o, arg |-> arg,
                 result |-> resultFunc(o, StateOf(m, ObserverContext(o)), arg)])

TooManyArguments == "Observer methods cannot be invoked with more than one argument"

\* (mutant) the number of arguments is checked after the reader has run
ObserverProxy_ChecksLast(m, o, args) ==
    IF Len(args) > 1
    THEN ThrowError(ObserverInvoke(m, o, args[1]).m, TooManyArguments)
    ELSE ObserverInvoke(m, o, IF Len(args) > 0 THEN args[1] ELSE Undefined)

\* the observer proxy called with the arguments args
ObserverProxy(m, o, args) ==
    IF Len(args) > 1 THEN ThrowError(m, TooManyArguments)
    ELSE ObserverInvoke(m, o, IF Len(args) > 0 THEN args[1] ELSE Undefined)

\* ---------------------------------------------------------------- Selector

\* r, with n added to its value (a thrown r is passed on)
Plus(n, r) == IF r.thrown THEN r ELSE [r EXCEPT !.val = Num(n + r.val.v)]

RECURSIVE invoke(_, _, _)
RECURSIVE computeFunc(_, _, _)

\* let result = getA(); if (result < 1) { result += getB() } return result
getResBody(r1) ==
    IF r1.val.v < 1 THEN Plus(r1.val.v, ObserverInvoke(r1.m, getB, Undefined))
    ELSE r1

\* () => getB() + getRes()
getSumBody(r1) == Plus(r1.val.v, invoke(r1.m, "getRes", << >>))

\* c => { let result = getA(); if (c < 1) { result += getB() }
\*        return result + 10 * c }
getResArgBody(c, r1) ==
    IF c < 1 THEN Plus(r1.val.v + 10 * c, ObserverInvoke(r1.m, getB, Undefined))
    ELSE Plus(10 * c, r1)

\* const a = getA(); if (a > 0) { throw Error('test error') } return a
mayThrowBody(r1) ==
    IF r1.val.v > 0 THEN ThrowError(r1.m, "test error") ELSE r1

\* () => { try { return mayThrow() } catch (e) { return getB() } }: r is the
\* outcome of mayThrow()
tryMayThrowBody(r) ==
    IF r.thrown THEN ObserverInvoke([r.m EXCEPT !.error = ""], getB, Undefined)
    ELSE r

\* getA(); throw Error('test error')
alwaysThrowBody(r1) == ThrowError(r1.m, "test error")

\* r, with its value multiplied by n
Times(n, r) == [r EXCEPT !.val = Num(n * r.val.v)]

\* r, with the smaller of n and its value
Least(n, r) == [r EXCEPT !.val = Num(IF n < r.val.v THEN n ELSE r.val.v)]

\* x + y for two strings of one digit; otherwise a string that holds the
\* text of a non-string operand, here 'undefined'
Concat(x, y) ==
    IF x.t = "string" /\ y.t = "string" THEN Str(10 * x.v + y.v) ELSE Str(-1)
ConcatTo(x, r) == [r EXCEPT !.val = Concat(x, r.val)]

\* the youngest of the persons '0' and '1'
getYoungestBody(r1) == Least(r1.val.v, ObserverInvoke(r1.m, getAge, Str(1)))

\* () => timesA() + timesB()
sumABBody(r1) == Plus(r1.val.v, invoke(r1.m, "timesThreeB", << >>))

\* () => getA1() + getA2()
selA1A2Body(r1) == ConcatTo(r1.val, ObserverInvoke(r1.m, getA2, Undefined))

\* () => getA2() + getA1()
selA2A1Body(r1) == ConcatTo(r1.val, ObserverInvoke(r1.m, getA1, Undefined))

\* () => getA() + get2B()
getA2BBody(r1) == Plus(r1.val.v, invoke(r1.m, "get2B", << >>))

\* () => getA() + sumAll(1)
sumOneBody(r1) == Plus(r1.val.v, ObserverProxy(r1.m, sumAll, <<Num(1)>>))

\* () => getA() + sumAll(1, 2)
sumTwoBody(r1) == Plus(r1.val.v, ObserverProxy(r1.m, sumAll, <<Num(1), Num(2)>>))

\* arg && typeof arg === "object" ? arg.constructor.name : typeof arg
TypeOf(arg) ==
    CASE arg.t = "null" -> "object"
      [] arg.t = "object" -> "Object"
      [] arg.t = "array" -> "Array"
      [] OTHER -> arg.t

\* arg => getLabel() + type
kindOfBody(arg, r1) == [r1 EXCEPT !.val = Text(r1.val.chars \o TypeOf(arg))]

\* n.toFixed(decimals) of a natural number n
RECURSIVE Zeros(_)
Zeros(decimals) == IF decimals = 0 THEN "" ELSE "0" \o Zeros(decimals - 1)
toFixed(n, decimals) ==
    ToString(n) \o (IF decimals = 0 THEN "" ELSE "." \o Zeros(decimals))

\* decimals => `${amount.toFixed(decimals)} ${currency}` for the currency EUR
getTotalStrBody(decimals, r1) ==
    [r1 EXCEPT !.val = Text(toFixed(r1.val.v, decimals) \o " " \o "EUR")]

\* the compute function of selector s, run on machine m
computeBody(s, m, args) ==
    CASE s = "getRes" -> getResBody(ObserverInvoke(m, getA, Undefined))
      [] s = "getSum" -> getSumBody(ObserverInvoke(m, getB, Undefined))
      [] s = "getResArg" ->
            getResArgBody(args[1].v, ObserverInvoke(m, getA, Undefined))
      [] s = "getValue" -> ObserverInvoke(m, getStateValue, Undefined)
      [] s = "mayThrow" -> mayThrowBody(ObserverInvoke(m, getA, Undefined))
      [] s = "alwaysThrow" -> alwaysThrowBody(ObserverInvoke(m, getA, Undefined))
      [] s = "getYoungest" -> getYoungestBody(ObserverInvoke(m, getAge, Str(0)))
      [] s = "timesA" -> Times(args[1].v, ObserverInvoke(m, getA, Undefined))
      [] s = "timesTwoA" -> Times(2, ObserverInvoke(m, getA, Undefined))
      [] s = "timesThreeB" -> Times(3, ObserverInvoke(m, getB, Undefined))
      [] s = "sumAB" -> sumABBody(invoke(m, "timesTwoA", << >>))
      [] s = "selA1A2" -> selA1A2Body(ObserverInvoke(m, getA1, Undefined))
      [] s = "selA2A1" -> selA2A1Body(ObserverInvoke(m, getA2, Undefined))
      [] s = "selA1" -> ObserverInvoke(m, getA1, Undefined)
      [] s = "selA2" -> ObserverInvoke(m, getA2, Undefined)
      [] s = "get2B" -> Times(2, ObserverInvoke(m, getB, Undefined))
      [] s = "getA2B" -> getA2BBody(ObserverInvoke(m, getA, Undefined))
      [] s = "selector" -> ObserverInvoke(m, getter, Undefined)
      [] s = "tryMayThrow" -> tryMayThrowBody(invoke(m, "mayThrow", << >>))
      [] s = "sumOne" -> sumOneBody(ObserverInvoke(m, getA, Undefined))
      [] s = "sumTwo" -> sumTwoBody(ObserverInvoke(m, getA, Undefined))
      [] s = "kindOf" ->
            kindOfBody(IF Len(args) > 0 THEN args[1] ELSE Undefined,
                       ObserverInvoke(m, getLabel, Undefined))
      [] s = "getTotalStr" ->
            getTotalStrBody(args[1].v, ObserverInvoke(m, getTotal, Undefined))

\* this.computeFunc.apply(null, arguments); `called` counts the runs
computeFunc(s, m, args) == computeBody(s, [m EXCEPT !.called[s] = @ + 1], args)

Pop(stack) == SubSeq(stack, 1, Len(stack) - 1)

\* (mutant) the dependencies are not shared with the enclosing computations
ShareWithParents_Skipped(m, computation) == m

\* "Share observer dependencies with the parent selectors"
ShareWithParents(m, computation) ==
    [m EXCEPT !.callStack =
        [i \in 1..Len(m.callStack) |->
            [m.callStack[i] EXCEPT !.comp = mergeObservers(@, computation)]]]

\* (mutant) the frame stays on the call-stack
FinallyPop_Kept(stack) == stack

\* the finally block of Selector.invoke
FinallyPop(stack) == Pop(stack)

\* the methods of options.cache || createDefaultCache(): the selector
\* getTotalStr is created with a cache of the user that has get, set and
\* clear, and DefaultCache has the same three methods
UserCached == {"getTotalStr"}
UserCacheMethods == {"get", "set", "clear"}
DefaultCacheMethods == {"get", "set", "clear"}
CacheMethods(s) == IF s \in UserCached THEN UserCacheMethods ELSE DefaultCacheMethods

\* this.cache[method](...): calling a method the cache lacks is a TypeError
CallCache(m, s, method, r) ==
    IF method \in CacheMethods(s) THEN r
    ELSE ThrowError(m, "this.cache." \o method \o " is not a function")

\* (mutant) the Computation stored also takes the observers of the
\* enclosing computation
StoreComputation_Inherits(m, s, cacheKey, computation) ==
    CallCache(m, s, "set",
        Return(ShareWithParents(
                   [m EXCEPT !.cache[s] =
                        CacheSet(@, cacheKey,
                                 IF Len(m.callStack) > 0
                                 THEN mergeObservers(computation,
                                          m.callStack[Len(m.callStack)].comp)
                                 ELSE computation),
                             !.recomputations[s] = @ + 1],
                   computation),
               computation.result))

\* "Store new computation in the cache", count it, share it, return its result
StoreComputation(m, s, cacheKey, computation) ==
    CallCache(m, s, "set",
        Return(ShareWithParents([m EXCEPT !.cache[s] = CacheSet(@, cacheKey, computation),
                                          !.recomputations[s] = @ + 1],
                                computation),
               computation.result))

\* (mutant) a run that threw is counted as a recomputation
AbandonComputation_Counted(m, s, cacheKey, wasCached, computation) ==
    Throw(IF wasCached
          THEN [m EXCEPT !.cache[s] = CacheSet(@, cacheKey, computation),
                         !.recomputations[s] = @ + 1]
          ELSE [m EXCEPT !.recomputations[s] = @ + 1])

\* the exception leaves invoke before cache.set; a Computation that was
\* taken from the cache is the very object the cache still holds
AbandonComputation(m, s, cacheKey, wasCached, computation) ==
    Throw(IF wasCached THEN [m EXCEPT !.cache[s] = CacheSet(@, cacheKey, computation)]
          ELSE m)

\* (mutant) pop after compute without try/finally: a throw skips the pop
AfterCompute_NoFinally(s, cacheKey, wasCached, r, top) ==
    IF r.thrown
    THEN AbandonComputation(r.m, s, cacheKey, wasCached, top)
    ELSE StoreComputation([r.m EXCEPT !.callStack = FinallyPop(@)],
                          s, cacheKey, [top EXCEPT !.result = r.val])

\* after computeFunc: r is its outcome, the frame of this call is on top
AfterCompute(s, cacheKey, wasCached, r, top) ==
    IF r.thrown
    THEN AbandonComputation([r.m EXCEPT !.callStack = FinallyPop(@)],
                            s, cacheKey, wasCached, top)
    ELSE StoreComputation([r.m EXCEPT !.callStack = FinallyPop(@)],
                          s, cacheKey, [top EXCEPT !.result = r.val])

TopComputation(r) == r.m.callStack[Len(r.m.callStack)].comp

Recompute(m, s, args, cacheKey, wasCached, r) ==
    AfterCompute(s, cacheKey, wasCached, r, TopComputation(r))

Push(m, s, cacheKey, computation) ==
    [m EXCEPT !.callStack =
        Append(@, [sel |-> s, key |-> cacheKey, comp |-> computation])]

\* (mutant) a cached Computation with a falsy result counts as a miss
InvokeCached_FalsyMisses(m, s, args, cacheKey, cached) ==
    IF \/ ~cached.present
       \/ cached.result \in FalsyValues
       \/ dependenciesChanged(cached, StateOf(m, SelectorContext(s)))
    THEN Recompute(m, s, args, cacheKey, cached.present,
                   computeFunc(s, Push(m, s, cacheKey,
                                       IF cached.present THEN cached
                                       ELSE NewComputation),
                               args))
    ELSE Return(ShareWithParents(m, cached), cached.result)

\* Selector.invoke once the cache was read
InvokeCached(m, s, args, cacheKey, cached) ==
    IF ~cached.present \/ dependenciesChanged(cached, StateOf(m, SelectorContext(s)))
    THEN Recompute(m, s, args, cacheKey, cached.present,
                   computeFunc(s, Push(m, s, cacheKey,
                                       IF cached.present THEN cached
                                       ELSE NewComputation),
                               args))
    ELSE Return(ShareWithParents(m, cached), cached.result)

\* the run of dependenciesChanged on the cached Computation, logged
LogPass(m, s, args, cached) ==
    IF cached.present
    THEN [m EXCEPT !.passes = @ \cup
             {[sel |-> s, args |-> args,
               replayed |-> Replayed(cached.observersList, 1,
                                     StateOf(m, SelectorContext(s)))]}]
    ELSE m

\* (mutant) the selector asks cache.has(cacheKey) before cache.get
InvokeKey_AsksHas(m, s, args, cacheKey) ==
    CallCache(m, s, "has",
        CallCache(m, s, "get",
            InvokeCached(LogPass(m, s, args, CacheGet(m.cache[s], cacheKey)),
                         s, args, cacheKey, CacheGet(m.cache[s], cacheKey))))

InvokeKey(m, s, args, cacheKey) ==
    CallCache(m, s, "get",
        InvokeCached(LogPass(m, s, args, CacheGet(m.cache[s], cacheKey)),
                     s, args, cacheKey, CacheGet(m.cache[s], cacheKey)))

\* Selector.invoke
invoke(m, s, args) ==
    InvokeKey([m EXCEPT !.invoked = @ \cup {<<s, args>>}], s, args,
              defaultSerialize(args))

\* (mutant) mock keeps the Computation that is cached under the key
mock_KeepsEntry(c, cacheKey) ==
    IF cacheKey \in DOMAIN c THEN c ELSE CacheSet(c, cacheKey, NewComputation)

\* Selector.mock: a new Computation is stored under the cache key ...
mock(c, cacheKey) == CacheSet(c, cacheKey, NewComputation)
\* (mutant) result(res) does not reach the stored Computation
MockResult_Ignored(c, cacheKey, res) == c

\* ... and result(res) of the object it returns sets the result of that
\* Computation
MockResult(c, cacheKey, res) ==
    CacheSet(c, cacheKey, [CacheGet(c, cacheKey) EXCEPT !.result = res])

\* Selector.clearCache
clearCache(c) == CacheClear(c)

\* (mutant) the caches of all selectors are cleared
ClearedCaches_All(caches, s) == [x \in DOMAIN caches |-> clearCache(caches[x])]

\* the caches of the selectors after s.clearCache(): this.cache is the cache
\* of s alone
ClearedCaches(caches, s) == [caches EXCEPT ![s] = clearCache(@)]

\* Selector.dependencies
DependenciesOf(computation) ==
    IF computation.present THEN getObserversIds(computation) ELSE << >>

\* (mutant) the dependencies are those of some entry of the selector,
\* whatever the arguments
dependencies_AnyKey(s, args) ==
    IF DOMAIN cache[s] = {} THEN << >>
    ELSE DependenciesOf(cache[s][CHOOSE key \in DOMAIN cache[s] : TRUE])

dependencies(s, args) == DependenciesOf(CacheGet(cache[s], defaultSerialize(args)))

\* ----------------------------------------------------------------- actions
\* the number of arguments an observer proxy is called with
MaxArgs == 3
ObserverArgs == { [i \in 1..n |-> Num(i)] : n \in 0..MaxArgs }

\* resultFunc.length of the readers given to createObserver
MaxLength == 3
ReaderLengths == 0..MaxLength

NoOp ==
    [op |-> "init", ctx |-> 1, sel |-> "", args |-> << >>, val |-> Undefined,
     thrown |-> FALSE, observed |-> {}, reads |-> {}, passes |-> {},
     order |-> << >>, error |-> ""]

NoHistory == [unchanged |-> TRUE, args |-> {}]
Forgotten == [unchanged |-> FALSE, args |-> {}]

\* cleared[s].miss: the argument tuples not invoked since clearCache of s;
\* cleared[s].hit: those whose first call since clearCache returned, with no
\* setState since
NotCleared == [miss |-> {}, hit |-> {}]

\* the observers of the fixtures were created
NumCreated == Cardinality(AllObservers)

\* `${id}` of the Observer constructor
ObserverId(id) == TemplateString(Num(id))

\* the engine after the selectors and observers were created
Created ==
    /\ numObservers = NumCreated
    /\ callStack = << >>
    /\ cache = [s \in AllSelectors |-> DefaultCache]
    /\ recomputations = [s \in AllSelectors |-> 0]
    /\ called = [s \in AllSelectors |-> 0]
    /\ last = NoOp
    /\ history = [s \in AllSelectors |-> NoHistory]
    /\ threw = {}
    /\ mocked = {}
    /\ cleared = [s \in AllSelectors |-> NotCleared]
    /\ observerIds = [o \in 1..NumCreated |->
                         [ctx |-> ObserverContext(o), id |-> ObserverId(o)]]
    /\ observers = [s \in AllSelectors |-> << >>]
    /\ observersByKey = [s \in AllSelectors |-> << >>]
    /\ observerResultsCache = [s \in AllSelectors |-> DefaultCache]

Init ==
    /\ selectors \in Fixtures
    /\ state \in States
    /\ state2 = NoState
    /\ Created

\* the bookkeeping of a state change
StateWasSet ==
    /\ history' = [s \in AllSelectors |->
                     IF history[s] = NoHistory THEN NoHistory ELSE Forgotten]
    /\ cleared' = [s \in AllSelectors |-> [cleared[s] EXCEPT !.hit = {}]]

\* (mutant) setState drops the caches that hold a Computation whose
\* recorded values differ in the new state
SetState_Invalidates(newState) ==
    /\ state' = newState
    /\ cache' = [s \in AllSelectors |->
                    IF \E key \in DOMAIN cache[s] :
                          dependenciesChanged(cache[s][key], newState)
                    THEN DefaultCache ELSE cache[s]]
    /\ last' = [NoOp EXCEPT !.op = "setState"]
    /\ StateWasSet
    /\ UNCHANGED <<observers, observersByKey, observerResultsCache,
                   selectors, state2, numObservers, callStack,
                   recomputations, called, threw, mocked, observerIds>>

\* Context.setState
SetState(newState) ==
    /\ state' = newState
    /\ last' = [NoOp EXCEPT !.op = "setState"]
    /\ StateWasSet
    /\ UNCHANGED <<observers, observersByKey, observerResultsCache,
                   selectors, state2, numObservers, callStack, cache,
                   recomputations, called, threw, mocked, observerIds>>

\* Context.setState of the second Context
SetState2(newState) ==
    /\ state2' = newState
    /\ last' = [NoOp EXCEPT !.op = "setState", !.ctx = 2]
    /\ StateWasSet
    /\ UNCHANGED <<observers, observersByKey, observerResultsCache,
                   selectors, state, numObservers, callStack, cache,
                   recomputations, called, threw, mocked, observerIds>>

\* the argument tuples selector x was invoked with during the operation
InvokedWith(r, x) == { c[2] : c \in { d \in r.m.invoked : d[1] = x } }

\* how many runs of the compute function of x are explored: kindOf can be
\* computed once for each of its calls
MaxCalled(x) == IF x = "kindOf" THEN Cardinality(KindArgs) ELSE MaxCount

Outcome(s, args, r) ==
    /\ \A x \in AllSelectors : r.m.called[x] <= MaxCalled(x)
    /\ state' = r.m.state
    /\ callStack' = r.m.callStack
    /\ cache' = r.m.cache
    /\ recomputations' = r.m.recomputations
    /\ called' = r.m.called
    /\ last' = [op |-> "invoke", ctx |-> SelectorContext(s), sel |-> s,
                args |-> args, val |-> r.val,
                thrown |-> r.thrown, observed |-> r.m.observed,
                reads |-> r.m.reads, passes |-> r.m.passes,
                order |-> r.m.order,
                error |-> IF r.thrown THEN r.m.error ELSE ""]
    /\ history' = [x \in AllSelectors |->
                     IF history[x].unchanged
                     THEN [history[x] EXCEPT !.args = @ \cup InvokedWith(r, x)]
                     ELSE history[x]]
    /\ threw' = IF r.thrown THEN threw \cup {<<s, args>>} ELSE threw \ {<<s, args>>}
    /\ cleared' = [x \in AllSelectors |->
                     [miss |-> cleared[x].miss \ InvokedWith(r, x),
                      hit |-> IF r.thrown THEN cleared[x].hit
                              ELSE cleared[x].hit
                                   \cup (cleared[x].miss \cap InvokedWith(r, x))]]
    /\ UNCHANGED <<observers, observersByKey, observerResultsCache,
                   selectors, state2, numObservers, mocked, observerIds>>

\* a call of the selector proxy from outside any computation
InvokeSelector(s, args) == Outcome(s, args, invoke(Machine, s, args))

\* S.mock(args).result(value)
Mock(s, args, value) ==
    /\ cache' = [cache EXCEPT ![s] =
                    MockResult(mock(@, defaultSerialize(args)),
                               defaultSerialize(args), value)]
    /\ last' = [NoOp EXCEPT !.op = "mock", !.ctx = SelectorContext(s),
                             !.sel = s, !.args = args, !.val = value]
    /\ mocked' = { x \in mocked : ~(x[1] = s /\ x[2] = args) }
                     \cup {<<s, args, value>>}
    /\ cleared' = [cleared EXCEPT ![s] = [miss |-> @.miss \ {args},
                                           hit |-> @.hit \ {args}]]
    /\ UNCHANGED <<observers, observersByKey, observerResultsCache,
                   selectors, state, state2, numObservers, callStack,
                   recomputations, called, history, threw, observerIds>>

\* (mutant) clearCache also resets the counter of the selector
ClearCache_ResetsCounter(s) ==
    /\ cache' = ClearedCaches(cache, s)
    /\ recomputations' = [recomputations EXCEPT ![s] = 0]
    /\ last' = [NoOp EXCEPT !.op = "clearCache", !.ctx = SelectorContext(s),
                             !.sel = s]
    /\ mocked' = { x \in mocked : x[1] # s }
    /\ cleared' = [cleared EXCEPT ![s] = [miss |-> ArgTuples(s), hit |-> {}]]
    /\ UNCHANGED <<observers, observersByKey, observerResultsCache,
                   selectors, state, state2, numObservers, callStack,
                   called, history, threw, observerIds>>

\* S.clearCache()
ClearCache(s) ==
    /\ cache' = ClearedCaches(cache, s)
    /\ last' = [NoOp EXCEPT !.op = "clearCache", !.ctx = SelectorContext(s),
                             !.sel = s]
    /\ mocked' = { x \in mocked : x[1] # s }
    /\ cleared' = [cleared EXCEPT ![s] = [miss |-> ArgTuples(s), hit |-> {}]]
    /\ UNCHANGED <<observers, observersByKey, observerResultsCache,
                   selectors, state, state2, numObservers, callStack,
                   recomputations, called, history, threw, observerIds>>

\* a call of the observer proxy from outside any computation
ObserverOutcome(o, args, r) ==
    /\ callStack' = r.m.callStack
    /\ cache' = r.m.cache
    /\ recomputations' = r.m.recomputations
    /\ called' = r.m.called
    /\ last' = [NoOp EXCEPT !.op = "observe", !.ctx = ObserverContext(o),
                             !.sel = ObserverId(o), !.args = args,
                             !.val = r.val, !.thrown = r.thrown,
                             !.observed = r.m.observed, !.reads = r.m.reads,
                             !.passes = r.m.passes, !.order = r.m.order,
                             !.error = IF r.thrown THEN r.m.error ELSE ""]
    /\ UNCHANGED <<observers, observersByKey, observerResultsCache,
                   selectors, state, state2, numObservers, history, threw,
                   mocked, cleared, observerIds>>

InvokeObserver(o, args) == ObserverOutcome(o, args, ObserverProxy(Machine, o, args))

TooManyParameters == "Observer methods cannot receive more than two arguments"

\* (mutant) the counter is not incremented
NextObserverId_Same(n) == n

\* ++Context.numObservers
NextObserverId(n) == n + 1

\* (mutant) the id is taken before the reader is checked
CreateObserver_CountsFirst(ctx, length) ==
    /\ numObservers < NumCreated + MaxCreated
    /\ numObservers' = NextObserverId(numObservers)
    /\ IF length > 2
       THEN /\ last' = [NoOp EXCEPT !.op = "createObserver", !.ctx = ctx,
                                     !.args = <<Num(length)>>, !.thrown = TRUE,
                                     !.error = TooManyParameters]
            /\ UNCHANGED observerIds
       ELSE /\ observerIds' =
                   Append(observerIds,
                          [ctx |-> ctx,
                           id |-> ObserverId(NextObserverId(numObservers))])
            /\ last' = [NoOp EXCEPT !.op = "createObserver", !.ctx = ctx,
                                     !.args = <<Num(length)>>,
                                     !.val = Str(NextObserverId(numObservers))]
    /\ UNCHANGED <<observers, observersByKey, observerResultsCache,
                   selectors, state, state2, callStack, cache,
                   recomputations, called, history, threw, mocked, cleared>>

\* ctx.createObserver(resultFunc) for a reader that no selector uses and
\* that declares length parameters (resultFunc.length)
CreateObserver(ctx, length) ==
    IF length > 2
    THEN /\ last' = [NoOp EXCEPT !.op = "createObserver", !.ctx = ctx,
                                  !.args = <<Num(length)>>, !.thrown = TRUE,
                                  !.error = TooManyParameters]
         /\ UNCHANGED <<observers, observersByKey, observerResultsCache,
                        selectors, state, state2, numObservers, callStack, cache,
                        recomputations, called, history, threw, mocked, cleared,
                        observerIds>>
    ELSE /\ numObservers < NumCreated + MaxCreated
         /\ numObservers' = NextObserverId(numObservers)
         /\ observerIds' =
                Append(observerIds,
                       [ctx |-> ctx,
                        id |-> ObserverId(NextObserverId(numObservers))])
         /\ last' = [NoOp EXCEPT !.op = "createObserver", !.ctx = ctx,
                                  !.args = <<Num(length)>>,
                                  !.val = Str(NextObserverId(numObservers))]
         /\ UNCHANGED <<observers, observersByKey, observerResultsCache,
                        selectors, state, state2, callStack, cache,
                        recomputations, called, history, threw, mocked, cleared>>

\* ctx.createSelector(computeFunc) for a selector that is never called
CreateSelector(ctx) ==
    /\ last' = [NoOp EXCEPT !.op = "createSelector", !.ctx = ctx]
    /\ UNCHANGED <<observers, observersByKey, observerResultsCache,
                   selectors, state, state2, numObservers, callStack, cache,
                   recomputations, called, history, threw, mocked, cleared,
                   observerIds>>

Next ==
    \/ \E newState \in States : SetState(newState)
    \/ \E s \in selectors : \E args \in ArgTuples(s) : InvokeSelector(s, args)

Spec == Init /\ [][Next]_vars

\* the selectors are also mocked and their caches cleared
InitApi ==
    /\ selectors \in ApiFixtures
    /\ state \in ApiStates(selectors)
    /\ state2 = NoState
    /\ Created

NextApi ==
    \/ \E newState \in ApiStates(selectors) : SetState(newState)
    \/ \E s \in CallTargets(selectors) : \E args \in ArgTuples(s) :
          InvokeSelector(s, args)
    \/ \E s \in selectors \cap MockTargets :
          \E args \in ArgTuples(s) : \E value \in MockValues : Mock(s, args, value)
    \/ \E s \in selectors : ClearCache(s)

SpecApi == InitApi /\ [][NextApi]_vars

\* two contexts
InitContexts ==
    /\ selectors \in ContextFixtures
    /\ state \in States1(selectors)
    /\ state2 \in States2(selectors)
    /\ Created

NextContexts ==
    \/ \E newState \in States1(selectors) : SetState(newState)
    \/ \E newState \in States2(selectors) : SetState2(newState)
    \/ \E s \in selectors : \E args \in ArgTuples(s) : InvokeSelector(s, args)
    \/ \E o \in {getA1, getA2} : InvokeObserver(o, << >>)
    \/ \E ctx \in {1, 2} : CreateObserver(ctx, 1)
    \/ \E ctx \in {1, 2} : CreateSelector(ctx)

SpecContexts == InitContexts /\ [][NextContexts]_vars

\* one context whose observers are also invoked from outside
InitObservers ==
    /\ selectors \in ObserverFixtures
    /\ state \in ApiStates(selectors)
    /\ state2 = NoState
    /\ Created

NextObservers ==
    \/ \E newState \in ApiStates(selectors) : SetState(newState)
    \/ \E s \in selectors : \E args \in ArgTuples(s) : InvokeSelector(s, args)
    \/ \E o \in FixtureObservers(selectors) : \E args \in ObserverArgs :
          InvokeObserver(o, args)

SpecObservers == InitObservers /\ [][NextObservers]_vars

\* one context whose selector takes arguments of every type, or has a cache
\* of the user, and where observers are created for readers of every length
InitOptions ==
    /\ selectors \in OptionFixtures
    /\ state \in OptionStates(selectors)
    /\ state2 = NoState
    /\ Created

NextOptions ==
    \/ \E newState \in OptionStates(selectors) : SetState(newState)
    \/ \E s \in selectors : \E args \in ArgTuples(s) : InvokeSelector(s, args)
    \/ \E s \in selectors \cap UserCached : ClearCache(s)
    \/ \E length \in ReaderLengths : CreateObserver(1, length)

SpecOptions == InitOptions /\ [][NextOptions]_vars

TypeOK ==
    /\ selectors \in Fixtures
    /\ state \in States
    /\ \A s \in AllSelectors : recomputations[s] \in 0..MaxCount

\* ------------------------------------------------------------------ claims
\* the step is the call s(args) made from outside any computation
InvokeStep(s, args) == last'.op = "invoke" /\ last'.sel = s /\ last'.args = args

\* the entry of selector s for the argument tuple args in the caches c
Entry(c, s, args) == CacheGet(c[s], defaultSerialize(args))

\* some observer call recorded in comp now reads a value that its isEqual
\* reports unequal to the recorded one
RecordedChanged(comp, st) ==
    \E i \in 1..Len(comp.observersList) :
        ~isEqual(comp.observersList[i].id,
                 resultFunc(comp.observersList[i].id, st, comp.observersList[i].arg),
                 comp.observersList[i].result)

\* the observer keys listed by dependencies()
KeySet(comp) == { DependenciesOf(comp)[i] : i \in 1..Len(DependenciesOf(comp)) }

\* what compute(args) returns when it is run against the state st with
\* nothing cached
FreshMachine(st) ==
    [state |-> st, state2 |-> state2, callStack |-> << >>,
     cache |-> [s \in AllSelectors |-> DefaultCache],
     recomputations |-> [s \in AllSelectors |-> 0],
     called |-> [s \in AllSelectors |-> 0],
     observed |-> {}, invoked |-> {}, reads |-> {}, passes |-> {},
     order |-> << >>, error |-> ""]
FreshValue(s, args, st) == invoke(FreshMachine(st), s, args).val

\* selectors whose observers use the default equality and that never throw
PlainSelectors == {"getRes", "getSum", "getResArg"}
\* selectors that call no other selector
LeafSelectors == {"getRes", "getResArg", "getValue", "mayThrow"}

\* C1 (as claimed): whenever a call S(A) is served from the cache (compute of
\* S does not run), the value returned is the value compute(A) returns
\* against the current state.
C1_TransparentHit ==
    [][\A s \in PlainSelectors : \A args \in ArgTuples(s) :
         (InvokeStep(s, args) /\ ~last'.thrown /\ called'[s] = called[s])
             => last'.val = FreshValue(s, args, state')]_vars

\* C2: when an entry is cached for serialize(A) and a recorded observer now
\* reads an unequal value, S(A) runs compute exactly once; when compute
\* returns, the fresh value is returned and stored and recomputations()
\* has increased by exactly one.
C2_RecomputesOnChange ==
    [][\A s \in AllSelectors : \A args \in ArgTuples(s) :
         (/\ InvokeStep(s, args)
          /\ Entry(cache, s, args).present
          /\ RecordedChanged(Entry(cache, s, args), state))
             => /\ called'[s] = called[s] + 1
                /\ ~last'.thrown =>
                      /\ last'.val = FreshValue(s, args, state)
                      /\ Entry(cache', s, args).result = last'.val
                      /\ recomputations'[s] = recomputations[s] + 1]_vars

\* an entry was recomputed: getRes was computed a second time
C2_Witness ==
    /\ last.op = "invoke" /\ last.sel = "getRes" /\ ~last.thrown
    /\ recomputations["getRes"] = 2

C4_RepeatedCallIsHit ==
    [][\A s \in AllSelectors : \A args \in ArgTuples(s) :
         (/\ last.op = "invoke" /\ last.sel = s /\ last.args = args
          /\ ~last.thrown
          /\ InvokeStep(s, args))
             => /\ called'[s] = called[s]
                /\ ~last'.thrown
                /\ last'.val = last.val]_vars

\* C5 (as claimed): when compute threw during S(A), the next S(A) runs
\* compute again, whatever the state is at that time.
C5_RecomputesAfterThrow ==
    [][\A s \in AllSelectors : \A args \in ArgTuples(s) :
         (InvokeStep(s, args) /\ <<s, args>> \in threw)
             => called'[s] = called[s] + 1]_vars

\* C6: the call-stack is released on every exit path: it is empty whenever
\* no invocation is in progress, and an invocation made while a frame of an
\* enclosing computation is on the stack leaves exactly that frame.
OuterFrame == [sel |-> "outer", key |-> _UNDEFINED_, comp |-> NewComputation]
FramesKept(r) ==
    /\ Len(r.m.callStack) = 1
    /\ r.m.callStack[1].sel = "outer"
C6_StackReleased ==
    /\ callStack = << >>
    /\ \A s \in selectors : \A args \in ArgTuples(s) :
          FramesKept(invoke([Machine EXCEPT !.callStack = <<OuterFrame>>], s, args))

\* a recomputation of a cached entry threw
C6_Witness ==
    /\ last.op = "invoke" /\ last.sel = "mayThrow" /\ last.thrown
    /\ Entry(cache, "mayThrow", << >>).present

C9_DependenciesOfLastComputation ==
    [][\A s \in LeafSelectors : \A args \in ArgTuples(s) :
         (InvokeStep(s, args) /\ ~last'.thrown /\ called'[s] > called[s])
             => KeySet(Entry(cache', s, args)) = last'.observed]_vars

\* C10 (as claimed): with the state unchanged, invoking S with k distinct
\* argument tuples runs compute exactly k times, and every call returns the
\* result of compute for its own arguments.
C10_OneComputePerTuple ==
    \A s \in PlainSelectors \cup {"getValue"} :
        history[s].unchanged =>
            /\ recomputations[s] = Cardinality(history[s].args)
            /\ (last.op = "invoke" /\ last.sel = s)
                   => last.val = FreshValue(s, last.args, state)

\* the entry was installed by mock and not by a computation
IsMocked(s, args) == \E x \in mocked : x[1] = s /\ x[2] = args

\* the result recorded in comp under the observer key
HasRecord(comp, key) == \E i \in 1..Len(comp.observersList) : comp.observersList[i].key = key
RecordedResult(comp, key) ==
    comp.observersList[CHOOSE i \in 1..Len(comp.observersList) :
                           comp.observersList[i].key = key].result

\* the arguments getYoungest invokes getAge with
Persons == { Str(0), Str(1) }

MockStep(s, args) == last'.op = "mock" /\ last'.sel = s /\ last'.args = args
\* the previous operation was S.mock(args).result(V)
JustMocked(s, args) == last.op = "mock" /\ last.sel = s /\ last.args = args

\* C12: S.mock(A).result(V) changes nothing but the entry of S for A; the
\* call S(A) that follows returns V without running compute and without
\* changing recomputations(); the call S(B) for another tuple B that has no
\* entry runs compute once and returns its value.
C12_MockReturnsValue ==
    [][\A s \in MockTargets : \A args \in ArgTuples(s) :
         /\ MockStep(s, args) =>
               /\ Entry(cache', s, args).result = last'.val
               /\ \A other \in ArgTuples(s) \ {args} :
                      Entry(cache', s, other) = Entry(cache, s, other)
               /\ \A t \in AllSelectors \ {s} : cache'[t] = cache[t]
               /\ recomputations' = recomputations /\ called' = called
         /\ (JustMocked(s, args) /\ InvokeStep(s, args)) =>
               /\ ~last'.thrown /\ last'.val = last.val
               /\ called' = called /\ recomputations' = recomputations
         /\ \A other \in ArgTuples(s) \ {args} :
               (/\ JustMocked(s, args) /\ InvokeStep(s, other)
                /\ ~Entry(cache, s, other).present) =>
                   /\ called'[s] = called[s] + 1
                   /\ recomputations'[s] = recomputations[s] + 1
                   /\ last'.val = FreshValue(s, other, state)
                   /\ Entry(cache', s, args) = Entry(cache, s, args)]_vars

\* timesA(2) returned its mocked value after timesA(1) was computed
C12_Witness ==
    /\ last.op = "invoke" /\ last.sel = "timesA" /\ last.args = <<Num(2)>>
    /\ IsMocked("timesA", <<Num(2)>>) /\ last.val \in MockValues
    /\ ~IsMocked("timesA", <<Num(1)>>)
    /\ called["timesA"] = 1 /\ recomputations["timesA"] = 1

\* every argument tuple of s holds a mock
AllMocked(s) == \A args \in ArgTuples(s) : IsMocked(s, args)

\* C13: a mocked result persists: as long as no clearCache of S and no new
\* mock of A happens, whatever setState calls and invocations are made, the
\* entry of S for A keeps the value V and no dependency, every S(A) returns
\* V, and compute of a selector whose tuples are all mocked never runs.
C13_MockPersists ==
    [][/\ \A x \in mocked' :
             /\ Entry(cache', x[1], x[2]).present
             /\ Entry(cache', x[1], x[2]).result = x[3]
             /\ DependenciesOf(Entry(cache', x[1], x[2])) = << >>
       /\ \A x \in mocked :
             InvokeStep(x[1], x[2]) =>
                 /\ ~last'.thrown /\ last'.val = x[3]
                 /\ called' = called /\ recomputations' = recomputations
       /\ \A s \in MockTargets : AllMocked(s) => called'[s] = called[s]]_vars

\* sumAB was computed twice, the second time after a setState, while its
\* child timesTwoA was mocked all along (its compute never ran)
C13_Witness ==
    /\ last.op = "invoke" /\ last.sel = "sumAB"
    /\ recomputations["sumAB"] = 2 /\ ~history["sumAB"].unchanged
    /\ IsMocked("timesTwoA", << >>) /\ called["timesTwoA"] = 0
    /\ cleared["timesTwoA"] = NotCleared /\ cleared["sumAB"] = NotCleared

\* the value of the mock installed for s(args)
MockedValue(s, args) == (CHOOSE x \in mocked : x[1] = s /\ x[2] = args)[3]

\* the children of sumAB
Children == {"timesTwoA", "timesThreeB"}
ChildrenMocked == \A c \in Children : IsMocked(c, << >>)

\* C14: when sumAB computes while its children timesTwoA and timesThreeB
\* are mocked, its compute runs once and returns the sum of the mocked
\* values, its recomputations() increases by one, the children's compute
\* and recomputations() are untouched and the computation adds no observer
\* key to the dependencies of sumAB; when nothing was computed before, the
\* counters end at 1 for sumAB and 0 for the children and sumAB has no
\* dependency.
C14_MockedChildren ==
    [][(/\ InvokeStep("sumAB", << >>) /\ ChildrenMocked
        /\ called'["sumAB"] # called["sumAB"]) =>
          /\ called'["sumAB"] = called["sumAB"] + 1
          /\ ~last'.thrown
          /\ last'.val = Num(MockedValue("timesTwoA", << >>).v
                              + MockedValue("timesThreeB", << >>).v)
          /\ recomputations'["sumAB"] = recomputations["sumAB"] + 1
          /\ \A c \in Children :
                 /\ called'[c] = called[c]
                 /\ recomputations'[c] = recomputations[c]
          /\ last'.observed = {}
          /\ KeySet(Entry(cache', "sumAB", << >>))
                 = KeySet(Entry(cache, "sumAB", << >>))
          /\ (\A s \in Children \cup {"sumAB"} : called[s] = 0) =>
                 /\ recomputations'["sumAB"] = 1
                 /\ \A c \in Children : recomputations'[c] = 0
                 /\ DependenciesOf(Entry(cache', "sumAB", << >>)) = << >>]_vars

\* sumAB() returned 11 from the mocks 5 and 6, and it is the only selector
\* that was computed
C14_Witness ==
    /\ last.op = "invoke" /\ last.sel = "sumAB" /\ last.val = Num(11)
    /\ ChildrenMocked
    /\ recomputations["sumAB"] = 1
    /\ \A c \in Children : called[c] = 0 /\ recomputations[c] = 0
    /\ DependenciesOf(Entry(cache, "sumAB", << >>)) = << >>

\* C15 (as claimed): when sumAB was only ever evaluated with its children
\* mocked (their compute never ran) and mocks are installed on the
\* children, the next call of sumAB returns the value computed from the
\* mock results installed at that time.
C15_MocksReplaced ==
    [][(/\ InvokeStep("sumAB", << >>) /\ ChildrenMocked
        /\ \A c \in Children : called[c] = 0) =>
          last'.val = Num(MockedValue("timesTwoA", << >>).v
                          + MockedValue("timesThreeB", << >>).v)]_vars

\* the step is S.clearCache()
ClearStep(s) == last'.op = "clearCache" /\ last'.sel = s

\* C16 (as claimed): after S.clearCache() no entry of S is left, cached or
\* mocked; for each argument tuple A the first S(A) that follows runs
\* compute and, when compute returns, increases recomputations() by one,
\* and the calls of S(A) after it, while the state is not set, are hits.
C16_ClearCacheThenMiss ==
    [][\A s \in AllSelectors : \A args \in ArgTuples(s) :
         /\ ClearStep(s) => ~Entry(cache', s, args).present
         /\ (InvokeStep(s, args) /\ args \in cleared[s].miss) =>
               /\ called'[s] = called[s] + 1
               /\ ~last'.thrown => recomputations'[s] = recomputations[s] + 1
         /\ (InvokeStep(s, args) /\ args \in cleared[s].hit) =>
               /\ called' = called
               /\ recomputations' = recomputations
               /\ last'.val = Entry(cache, s, args).result]_vars

\* the selectors that the compute function of t calls
Callees(t) ==
    CASE t = "getSum" -> {"getRes"}
      [] t = "sumAB" -> Children
      [] OTHER -> {}

\* the runs of compute of s that threw during the step: in the fixtures
\* only the compute of the called selector throws
ThrownRuns(s) == IF last'.op = "invoke" /\ last'.thrown /\ s = last'.sel THEN 1 ELSE 0

OwnSelectors == {"selA1", "selA2"}

\* the engine between two operations, given the values of its variables
MachineAt(st, st2, c, rc, cl) ==
    [state |-> st, state2 |-> st2, callStack |-> << >>, cache |-> c,
     recomputations |-> rc, called |-> cl, observed |-> {}, invoked |-> {},
     reads |-> {}, passes |-> {}, order |-> << >>, error |-> ""]

\* what the call s() would do on the engine m: whether compute runs, the
\* value returned, and the dependencies and the counter after it
NextCall(m, s) ==
    [computes |-> invoke(m, s, << >>).m.called[s] - m.called[s],
     val |-> invoke(m, s, << >>).val,
     thrown |-> invoke(m, s, << >>).thrown,
     dependencies |->
         DependenciesOf(CacheGet(invoke(m, s, << >>).m.cache[s], _UNDEFINED_)),
     recomputations |-> invoke(m, s, << >>).m.recomputations[s]]

\* C18: for a selector of one Context whose compute uses only observers of
\* that Context, no operation on the other Context (setState, creating an
\* observer, invoking its observers or selectors) changes whether the next
\* call is a hit, the value it returns, its dependencies or its counter.
C18_ContextsIsolated ==
    [][\A s \in selectors \cap OwnSelectors :
         last'.ctx # SelectorContext(s) =>
             /\ NextCall(MachineAt(state', state2', cache', recomputations',
                                   called'), s)
                   = NextCall(MachineAt(state, state2, cache, recomputations,
                                        called), s)
             /\ Entry(cache', s, << >>) = Entry(cache, s, << >>)
             /\ recomputations'[s] = recomputations[s]]_vars

\* the state of the first Context was set while selA2, a selector of the
\* second Context, was cached
C18_Witness ==
    /\ last.op = "setState" /\ last.ctx = 1
    /\ recomputations["selA2"] = 1
    /\ Entry(cache, "selA2", << >>).present
    /\ called["selA1A2"] > 0

\* the selectors whose compute reads an observer of each Context
MixedSelectors == {"selA1A2", "selA2A1"}
\* the observer of the other Context that the selector reads
ForeignObserver(s) == IF s = "selA1A2" THEN getA2 ELSE getA1
\* the value compute of the selector builds from the states of the contexts
MixedValue(s, st, st2) ==
    IF s = "selA1A2" THEN Concat(st.foo, st2.bar) ELSE Concat(st2.bar, st.foo)

\* C19 (as claimed): a selector whose compute reads an observer of its own
\* Context and an observer of the other Context lists both observers among
\* its dependencies after it computes, and when setState of the other
\* Context has changed the value read by that Context's observer, the next
\* call recomputes and returns the value built from the new state.
C19_ForeignObserverTracked ==
    [][\A s \in selectors \cap MixedSelectors :
         InvokeStep(s, << >>) =>
           /\ called'[s] > called[s] =>
                 { getObserverKey(getA1, Undefined), getObserverKey(getA2, Undefined) }
                     \subseteq KeySet(Entry(cache', s, << >>))
           /\ (/\ Entry(cache, s, << >>).present
               /\ RecordedResult(Entry(cache, s, << >>),
                                 getObserverKey(ForeignObserver(s), Undefined))
                     # resultFunc(ForeignObserver(s),
                                  StateOf(Machine, ObserverContext(ForeignObserver(s))),
                                  Undefined)) =>
                 /\ called'[s] = called[s] + 1
                 /\ last'.val = MixedValue(s, state, state2)]_vars

\* some observer call recorded in comp now reads, from the state of the
\* Context that created the observer, a value unequal to the recorded one
OwnStateChanged(comp, m) ==
    \E i \in 1..Len(comp.observersList) :
        ~isEqual(comp.observersList[i].id,
                 resultFunc(comp.observersList[i].id,
                            StateOf(m, ObserverContext(comp.observersList[i].id)),
                            comp.observersList[i].arg),
                 comp.observersList[i].result)

\* C20 (as claimed): an observer is evaluated against the state of the
\* Context that created it, when it is invoked (the value recorded is read
\* from that state) and when a selector replays it: a cached call
\* recomputes exactly when some recorded observer, read from its own
\* Context's state, has changed; also for a selector of another Context.
C20_OwnContextState ==
    [][\A s \in selectors :
         InvokeStep(s, << >>) =>
           /\ called'[s] > called[s] =>
                 ~OwnStateChanged(Entry(cache', s, << >>),
                                  MachineAt(state', state2', cache',
                                            recomputations', called'))
           /\ Entry(cache, s, << >>).present =>
                 (called'[s] > called[s]
                    <=> OwnStateChanged(Entry(cache, s, << >>), Machine))]_vars

\* C21: every observer has a non-empty string as id, and two observers
\* created by the same Context never have the same id, whatever was created
\* in between
C21_ObserverIds ==
    \A i \in DOMAIN observerIds :
        /\ observerIds[i].id # ""
        /\ \A j \in DOMAIN observerIds :
              (i # j /\ observerIds[i].ctx = observerIds[j].ctx)
                  => observerIds[i].id # observerIds[j].id

\* an observer was created after another Context created one, and a selector
\* after that
C21_Witness ==
    /\ last.op = "createSelector"
    /\ \E i, k, j \in DOMAIN observerIds :
          /\ i < k /\ k < j /\ j > NumCreated
          /\ observerIds[i].ctx = observerIds[j].ctx
          /\ observerIds[k].ctx # observerIds[j].ctx

\* C22: createObserver throws for a reader that declares more than two
\* parameters, consumes no id and changes nothing; readers that declare 0, 1
\* or 2 parameters are accepted and get the next id
C22_TooManyParameters ==
    [][last'.op = "createObserver" =>
          IF last'.args[1].v > 2
          THEN /\ last'.thrown
               /\ last'.error = TooManyParameters
               /\ UNCHANGED <<numObservers, observerIds, state, state2,
                              callStack, cache, recomputations, called>>
          ELSE /\ ~last'.thrown
               /\ numObservers' = numObservers + 1
               /\ Len(observerIds') = Len(observerIds) + 1
               /\ observerIds'[Len(observerIds')] =
                     [ctx |-> last'.ctx, id |-> ObserverId(numObservers')]
               /\ last'.val = Str(numObservers')]_vars

\* a reader with three parameters was refused after an observer was created
C22_Witness ==
    /\ last.op = "createObserver"
    /\ last.thrown
    /\ last.args = <<Num(3)>>
    /\ numObservers = NumCreated + 1
    /\ Len(observerIds) = numObservers

\* the step is the call o(args) of an observer from outside any computation
ObserveStep == last'.op = "observe"

\* the keys under which a call of sumAll is registered
SumAllKeys ==
    { getObserverKey(sumAll, arg) : arg \in {Undefined} \cup { Num(n) : n \in 1..MaxArgs } }

\* the selectors whose compute function calls an observer with two arguments
TwoArguments == {"sumTwo"}

\* C23: an observer invoked with more than one argument throws before its
\* reader is called and before anything is registered, outside and inside a
\* selector computation; with zero or one argument this error is not raised
C23_TooManyArguments ==
    [][/\ ObserveStep =>
            IF Len(last'.args) > 1
            THEN /\ last'.thrown
                 /\ last'.error = TooManyArguments
                 /\ last'.reads = {}
                 /\ last'.observed = {}
                 /\ UNCHANGED <<callStack, cache, recomputations, called>>
            ELSE ~last'.thrown
       /\ \A s \in selectors :
              InvokeStep(s, << >>) =>
                  IF s \in TwoArguments /\ called'[s] > called[s]
                  THEN /\ last'.thrown
                       /\ last'.error = TooManyArguments
                       /\ \A read \in last'.reads : read[1] # sumAll
                       /\ SumAllKeys \cap last'.observed = {}
                       /\ SumAllKeys \cap KeySet(Entry(cache', s, << >>)) = {}
                  ELSE last'.error # TooManyArguments]_vars

\* sumAll(1, 2, 3) threw outside a computation, and sumAll(1, 2) inside one
C23_Witness ==
    /\ last.op = "observe"
    /\ last.sel = ObserverId(sumAll)
    /\ Len(last.args) = 3
    /\ last.thrown
    /\ <<"sumTwo", << >>>> \in threw
    /\ recomputations["sumOne"] > 0

\* C24: the default serializer gives pairwise distinct keys to the calls
\* sel(), sel(undefined), sel(null), sel(2), sel('2'), sel(false), sel({}) and
\* sel([]); the key of a call without argument is the key of no call with
\* undefined or a string, the key of a number is not the key of the string
\* of its digits; so each of these calls is computed once and cached on its
\* own
C24_DistinctKeys ==
    /\ \A x, y \in KindArgs : x # y => defaultSerialize(x) # defaultSerialize(y)
    /\ \A n \in 0..(MaxArg + 1) :
          /\ defaultSerialize(<< >>) # defaultSerialize(<<Str(n)>>)
          /\ defaultSerialize(<<Num(n)>>) # defaultSerialize(<<Str(n)>>)
    /\ ("kindOf" \in selectors /\ history["kindOf"].unchanged) =>
          /\ recomputations["kindOf"] = Cardinality(history["kindOf"].args)
          /\ called["kindOf"] = Cardinality(history["kindOf"].args)
          /\ \A args \in history["kindOf"].args :
                /\ Entry(cache, "kindOf", args).present
                /\ Entry(cache, "kindOf", args).result =
                      Text(TypeOf(IF Len(args) > 0 THEN args[1] ELSE Undefined))

\* the eight calls were made and computed
C24_Witness ==
    /\ history["kindOf"].unchanged
    /\ history["kindOf"].args = KindArgs
    /\ recomputations["kindOf"] = 8
    /\ Cardinality(DOMAIN cache["kindOf"]) = 8

\* C25: a selector whose cache has only get, set and clear works: no call
\* fails, a call whose key has no entry runs compute and stores the entry, a
\* call of a stored key whose recorded values did not change is a hit
C25_CacheWithoutHas ==
    [][\A s \in selectors \cap UserCached : \A args \in ArgTuples(s) :
          ("has" \notin CacheMethods(s) /\ InvokeStep(s, args)) =>
              /\ ~last'.thrown
              /\ last'.val = FreshValue(s, args, state)
              /\ Entry(cache', s, args).present
              /\ IF ~Entry(cache, s, args).present
                 THEN called'[s] = called[s] + 1
                 ELSE ~RecordedChanged(Entry(cache, s, args), state)
                          => (called'[s] = called[s] /\ cache' = cache)]_vars

\* a hit, and a miss after clearCache
C25_Witness ==
    /\ last.op = "invoke"
    /\ last.sel = "getTotalStr"
    /\ ~last.thrown
    /\ cleared["getTotalStr"].hit # {}
    /\ called["getTotalStr"] > Cardinality(DOMAIN cache["getTotalStr"])

\* nothing was computed or mocked for the call s(args): it was not made and
\* not mocked since the last clearCache of s, or since the beginning
NothingFor(s, args) ==
    \/ args \in cleared[s].miss
    \/ /\ cleared[s] = NotCleared
       /\ history[s].unchanged
       /\ args \notin history[s].args
       /\ ~IsMocked(s, args)

\* C26: S.dependencies(A) reports the dependencies of the entry of S for A
\* and of no other entry: it is empty while nothing was computed or mocked
\* for A, also when S holds entries for other argument tuples
C26_DependenciesPerKey ==
    \A s \in selectors : \A args \in ArgTuples(s) :
        /\ NothingFor(s, args) => dependencies(s, args) = << >>
        /\ IsMocked(s, args) => dependencies(s, args) = << >>
        /\ (s = "timesA" /\ args \in cleared[s].hit) =>
              dependencies(s, args) = <<getObserverKey(getA, Undefined)>>

\* timesA holds an entry with a dependency for one argument, nothing was
\* computed or mocked for the other one
C26_Witness ==
    \E args, other \in ArgTuples("timesA") :
        /\ NothingFor("timesA", args)
        /\ ~Entry(cache, "timesA", args).present
        /\ Entry(cache, "timesA", other).present
        /\ dependencies("timesA", other) # << >>

\* the argument the reader receives when the proxy is called with args
ReaderArg(args) == IF Len(args) > 0 THEN args[1] ELSE Undefined

\* C27: an observer is not memoized: called from outside it returns what its
\* reader gives for the current state (and argument), and every call of a
\* reader made during an operation, inside a computation or not, gave the
\* value read from the current state, also while selectors hold results
\* computed from older values
C27_ObserverNotMemoized ==
    [][/\ \A o \in FixtureObservers(selectors) :
              (ObserveStep /\ last'.sel = ObserverId(o) /\ Len(last'.args) <= 1) =>
                  /\ ~last'.thrown
                  /\ last'.val = resultFunc(o, state', ReaderArg(last'.args))
                  /\ last'.reads = {<<o, ReaderArg(last'.args), last'.val>>}
       /\ \A read \in last'.reads :
              read[3] = resultFunc(read[1], state', read[2])]_vars

\* getA() returned the value of the new state while a selector still holds
\* the value it recorded for getA before setState
C27_Witness ==
    /\ last.op = "observe"
    /\ last.sel = ObserverId(getA)
    /\ last.args = << >>
    /\ \E s \in selectors :
          /\ Entry(cache, s, << >>).present
          /\ HasRecord(Entry(cache, s, << >>), getObserverKey(getA, Undefined))
          /\ RecordedResult(Entry(cache, s, << >>), getObserverKey(getA, Undefined))
                # last.val

\* how many computations are nested when the observer is invoked
MaxDepth == 3

\* the frame Selector.invoke pushes for the call s(): the cached Computation
\* of the call, or a new one
FrameOf(s) ==
    [sel |-> s, key |-> defaultSerialize(<< >>),
     comp |-> IF Entry(cache, s, << >>).present THEN Entry(cache, s, << >>)
              ELSE NewComputation]

\* the call-stacks of n nested computations, 1 <= n <= MaxDepth: computations
\* of the selectors of the context inside computations of other selectors
NestedStacks ==
    { SubSeq(stack, MaxDepth + 1 - n, MaxDepth) :
        stack \in { [i \in 1..MaxDepth |->
                        IF i = MaxDepth THEN FrameOf(s2)
                        ELSE IF i = MaxDepth - 1 THEN FrameOf(s1)
                        ELSE OuterFrame] :
                    s1 \in selectors, s2 \in selectors },
        n \in 1..MaxDepth }

\* every frame of the stack of r holds the record of the call o(arg) with
\* the value the call returned
RecordedInAll(r, o, arg) ==
    \A i \in 1..Len(r.m.callStack) :
        /\ HasRecord(r.m.callStack[i].comp, getObserverKey(o, arg))
        /\ RecordedResult(r.m.callStack[i].comp, getObserverKey(o, arg)) = r.val
        /\ \E j \in 1..Len(r.m.callStack[i].comp.observersList) :
              /\ r.m.callStack[i].comp.observersList[j].id = o
              /\ r.m.callStack[i].comp.observersList[j].arg = arg

\* C28: an observer invoked while n >= 1 computations are nested on the
\* call-stack is recorded, with its key, argument and value, in every one of
\* the n Computations
C28_RecordedInAllFrames ==
    \A stack \in NestedStacks : \A o \in FixtureObservers(selectors) :
        \A args \in { t \in ObserverArgs : Len(t) <= 1 } :
            /\ Len(ObserverProxy([Machine EXCEPT !.callStack = stack], o, args)
                       .m.callStack) = Len(stack)
            /\ RecordedInAll(ObserverProxy([Machine EXCEPT !.callStack = stack],
                                           o, args),
                             o, ReaderArg(args))

\* getSum computed getRes: both Computations hold the value getA returned
\* inside getRes
C28_Witness ==
    /\ last.op = "invoke"
    /\ last.sel = "getSum"
    /\ called["getRes"] > 1
    /\ \A s \in {"getSum", "getRes"} :
          /\ Entry(cache, s, << >>).present
          /\ HasRecord(Entry(cache, s, << >>), getObserverKey(getA, Undefined))
          /\ RecordedResult(Entry(cache, s, << >>), getObserverKey(getA, Undefined))
                = state.a

\* the selectors that call another selector, and the selector they call
Parents == {"getSum", "getA2B"}
ChildOf(s) == IF s = "getSum" THEN "getRes" ELSE "get2B"

\* C29: dependencies flow upward only: when a parent computes, the entry of
\* the child it calls becomes what a call of the child alone would make it,
\* so no observer the parent invokes outside the child is added to the
\* child; when the parent is served from the cache the child's entry is
\* untouched; get2B, which reads getB only, never depends on anything but
\* getB although its parent reads getA
C29_UpwardOnly ==
    [][/\ \A s \in selectors \cap Parents :
             InvokeStep(s, << >>) =>
                 IF called'[s] > called[s]
                 THEN Entry(cache', ChildOf(s), << >>) =
                          Entry(invoke(Machine, ChildOf(s), << >>).m.cache,
                                ChildOf(s), << >>)
                 ELSE Entry(cache', ChildOf(s), << >>) =
                          Entry(cache, ChildOf(s), << >>)
       /\ "get2B" \in selectors =>
             /\ KeySet(Entry(cache', "get2B", << >>))
                   \subseteq {getObserverKey(getB, Undefined)}
             /\ (InvokeStep("getA2B", << >>) /\ called'["getA2B"] > called["getA2B"]) =>
                   /\ dependencies("get2B", << >>)' = <<getObserverKey(getB, Undefined)>>
                   /\ KeySet(Entry(cache', "getA2B", << >>)) =
                         {getObserverKey(getA, Undefined),
                          getObserverKey(getB, Undefined)}]_vars

\* the parent getA2B computed after getA changed; the child depends on getB
\* only
C29_Witness ==
    /\ last.op = "invoke"
    /\ last.sel = "getA2B"
    /\ called["getA2B"] > 1
    /\ getObserverKey(getA, Undefined) \in last.observed
    /\ dependencies("get2B", << >>) = <<getObserverKey(getB, Undefined)>>

\* C30: an observer invoked while no computation is in progress only reads:
\* the call-stack is empty before and after, and no cache entry (result,
\* dependencies, recorded values), no counter and no state changes, whatever
\* happened before, a compute that threw included
C30_ObserverOnlyReads ==
    [][ObserveStep =>
          /\ callStack = << >>
          /\ callStack' = << >>
          /\ cache' = cache
          /\ \A s \in selectors : \A args \in ArgTuples(s) :
                DependenciesOf(Entry(cache', s, args)) = dependencies(s, args)
          /\ UNCHANGED <<recomputations, called, state, state2, numObservers,
                         observerIds>>]_vars

\* getA() was called from outside after a recomputation of a cached entry
\* threw
C30_Witness ==
    /\ last.op = "observe"
    /\ last.sel = ObserverId(getA)
    /\ ~last.thrown
    /\ <<"mayThrow", << >>>> \in threw
    /\ Entry(cache, "mayThrow", << >>).present

\* C31: setState only replaces the state: every cache entry with its
\* result, dependencies and recorded observer values, every counter and the
\* call-stack are unchanged, and no reader, compute function or equality
\* predicate is called
C31_SetStateFrame ==
    [][last'.op = "setState" =>
          /\ UNCHANGED <<cache, recomputations, called, callStack, numObservers>>
          /\ \A s \in selectors : \A args \in ArgTuples(s) :
                DependenciesOf(Entry(cache', s, args)) = dependencies(s, args)
          /\ last'.reads = {}
          /\ last'.passes = {}]_vars

\* after setState a Computation still records a value that the new state no
\* longer gives
C31_Witness ==
    /\ last.op = "setState"
    /\ \E s \in selectors : \E args \in ArgTuples(s) :
          /\ Entry(cache, s, args).present
          /\ RecordedChanged(Entry(cache, s, args), state)

\* C32: a run of dependenciesChanged stops at the first recorded observer
\* whose value differs: the observers before it are unchanged, the
\* observers after it are not replayed
C32_ShortCircuit ==
    [][\A pass \in last'.passes :
          /\ Entry(cache, pass.sel, pass.args).present
          /\ pass.replayed <= Len(Entry(cache, pass.sel, pass.args).observersList)
          /\ \A j \in 1..(pass.replayed - 1) :
                ~ObserverChanged(
                     Entry(cache, pass.sel, pass.args).observersList[j], state')
          /\ pass.replayed < Len(Entry(cache, pass.sel, pass.args).observersList)
                => ObserverChanged(
                       Entry(cache, pass.sel, pass.args).observersList[pass.replayed],
                       state')]_vars

\* a run stopped before the end of the list
C32_Witness ==
    \E pass \in last.passes :
        /\ pass.replayed >= 1
        /\ pass.replayed < Len(Entry(cache, pass.sel, pass.args).observersList)

\* no selector of the context holds a cache entry
NothingCached == \A x \in selectors : cache[x] = DefaultCache

\* C33 (as claimed): S.dependencies(A) lists the observer keys in the order
\* in which the observers were first invoked during the computation,
\* whatever the order of their ids and whether they were recorded directly
\* or merged from a child
C33_ExecutionOrder ==
    [][\A s \in selectors : \A args \in ArgTuples(s) :
          (NothingCached /\ InvokeStep(s, args) /\ ~last'.thrown) =>
              DependenciesOf(Entry(cache', s, args)) = last'.order]_vars

\* the records of the list have pairwise different keys
SingleEntries(list) ==
    \A i, j \in 1..Len(list) : list[i].key = list[j].key => i = j

\* C34 (as claimed): after a computation of a selector that calls no other
\* selector, its entry holds one record for each (observer, argument) pair
\* invoked during the computation, with the value of the latest invocation,
\* and no other record
C34_OneEntryPerCall ==
    [][\A s \in selectors \cap LeafSelectors : \A args \in ArgTuples(s) :
          (InvokeStep(s, args) /\ called'[s] > called[s] /\ ~last'.thrown) =>
              /\ SingleEntries(Entry(cache', s, args).observersList)
              /\ \A read \in last'.reads :
                    /\ HasRecord(Entry(cache', s, args),
                                 getObserverKey(read[1], read[2]))
                    /\ RecordedResult(Entry(cache', s, args),
                                      getObserverKey(read[1], read[2])) = read[3]
              /\ Len(Entry(cache', s, args).observersList)
                    = Cardinality(last'.observed)]_vars

\* C35: a selector that computes undefined, null, 0, false or '' stores a
\* Computation with that result, and a later call with the same arguments,
\* while every recorded observer still gives its recorded value, returns
\* the stored result and runs no compute function
C35_FalsyResultsCached ==
    [][\A s \in selectors : \A args \in ArgTuples(s) :
          /\ (/\ InvokeStep(s, args)
              /\ called'[s] > called[s]
              /\ ~last'.thrown
              /\ last'.val \in FalsyValues) =>
                 /\ Entry(cache', s, args).present
                 /\ Entry(cache', s, args).result = last'.val
          /\ (/\ InvokeStep(s, args)
              /\ Entry(cache, s, args).present
              /\ Entry(cache, s, args).result \in FalsyValues
              /\ ~RecordedChanged(Entry(cache, s, args), state)) =>
                 /\ called' = called
                 /\ recomputations' = recomputations
                 /\ ~last'.thrown
                 /\ last'.val = Entry(cache, s, args).result]_vars

\* a hit on a stored falsy result
C35_Witness ==
    /\ last.op = "invoke"
    /\ last.sel = "selector"
    /\ last.val = Undefined
    /\ ~last.thrown
    /\ called["selector"] = 1
    /\ last.passes # {}

\* the call mayThrow() made by the compute function of tryMayThrow, whose
\* frame was pushed on a stack that holds the frame of an enclosing
\* computation
ChildCall ==
    invoke([Machine EXCEPT !.callStack = <<OuterFrame, FrameOf("tryMayThrow")>>],
           "mayThrow", << >>)

\* C36: when the child mayThrow throws inside tryMayThrow, which catches the
\* error, the frame of tryMayThrow is the top of the call-stack right after
\* the failure and its Computation holds the observer the child read; a
\* call of tryMayThrow returns normally and removes exactly its own frame,
\* and when it ran the catch block (the only place that reads getB) it
\* stored a Computation with the observer read by the child and the one
\* read after the catch
C36_CaughtChildFailure ==
    "tryMayThrow" \in selectors =>
        /\ ChildCall.thrown =>
               /\ Len(ChildCall.m.callStack) = 2
               /\ ChildCall.m.callStack[1].sel = "outer"
               /\ ChildCall.m.callStack[2].sel = "tryMayThrow"
               /\ HasRecord(ChildCall.m.callStack[2].comp,
                            getObserverKey(getA, Undefined))
               /\ RecordedResult(ChildCall.m.callStack[2].comp,
                                 getObserverKey(getA, Undefined)) = state.a
        /\ ~invoke([Machine EXCEPT !.callStack = <<OuterFrame>>],
                   "tryMayThrow", << >>).thrown
        /\ FramesKept(invoke([Machine EXCEPT !.callStack = <<OuterFrame>>],
                             "tryMayThrow", << >>))
        /\ (/\ last.op = "invoke"
            /\ last.sel = "tryMayThrow"
            /\ getObserverKey(getB, Undefined) \in last.observed) =>
               /\ ~last.thrown
               /\ callStack = << >>
               /\ Entry(cache, "tryMayThrow", << >>).present
               /\ HasRecord(Entry(cache, "tryMayThrow", << >>),
                            getObserverKey(getA, Undefined))
               /\ HasRecord(Entry(cache, "tryMayThrow", << >>),
                            getObserverKey(getB, Undefined))
               /\ last.val = state.b

\* tryMayThrow was computed while mayThrow throws: it read getB after the
\* catch
C36_Witness ==
    /\ last.op = "invoke"
    /\ last.sel = "tryMayThrow"
    /\ ~last.thrown
    /\ state.a.v > 0
    /\ last.order = <<getObserverKey(getA, Undefined),
                      getObserverKey(getB, Undefined)>>
    /\ last.val = state.b

\* C37: S.clearCache() leaves the caches (hence the dependencies) and the
\* counters of the other selectors unchanged, and a call of another
\* selector whose cached Computation has no changed observer is still a
\* hit: it runs no compute function and returns the cached result
C37_ClearCacheFrame ==
    [][\A s \in selectors : ClearStep(s) =>
          /\ \A p \in selectors \ {s} :
                /\ cache'[p] = cache[p]
                /\ recomputations'[p] = recomputations[p]
                /\ called'[p] = called[p]
                /\ \A args \in ArgTuples(p) :
                      DependenciesOf(Entry(cache', p, args)) = dependencies(p, args)
          /\ \A p \in CallTargets(selectors) \ {s} : \A args \in ArgTuples(p) :
                (/\ Entry(cache, p, args).present
                 /\ ~RecordedChanged(Entry(cache, p, args), state)) =>
                    /\ invoke(MachineAt(state', state2', cache', recomputations',
                                        called'), p, args).m.called = called
                    /\ ~invoke(MachineAt(state', state2', cache', recomputations',
                                         called'), p, args).thrown
                    /\ invoke(MachineAt(state', state2', cache', recomputations',
                                        called'), p, args).val
                          = Entry(cache, p, args).result]_vars

\* the cache of getRes was cleared while getSum holds a Computation with the
\* observer getA, which it took from getRes, and no observer has changed
C37_Witness ==
    /\ last.op = "clearCache"
    /\ last.sel = "getRes"
    /\ ~Entry(cache, "getRes", << >>).present
    /\ called["getRes"] > 0
    /\ Entry(cache, "getSum", << >>).present
    /\ HasRecord(Entry(cache, "getSum", << >>), getObserverKey(getA, Undefined))
    /\ ~RecordedChanged(Entry(cache, "getSum", << >>), state)

\* ------------------------------------------- src/index.js (closure version)
\* the engine of src/index.js, where each selector keeps one list of
\* observers and one cache of observer results for all its cache keys

\* the object { result, arg } that addObserver stores
ResultRecord(result, arg) == [t |-> "record", result |-> result, arg |-> arg]

\* reading a property of undefined or null is a TypeError
HasProperties(value) == value.t \notin {"undefined", "null"}
\* value.arg and value.result: undefined when the value is not such an object
ArgOf(value) == IF value.t = "record" THEN value.arg ELSE Undefined
ResultOf(value) == IF value.t = "record" THEN value.result ELSE Undefined

\* DefaultCache.get: undefined for a key that was never set
CacheGetValue(c, key) == IF key \in DOMAIN c THEN c[key] ELSE Undefined

\* Object.assign(target.cache, source.cache) of two DefaultCaches
AssignCaches(target, source) ==
    [k \in DOMAIN target \cup DOMAIN source |->
        IF k \in DOMAIN source THEN source[k] ELSE target[k]]

\* the engine during an operation
ClosureMachine ==
    [state |-> state, stackedSelectors |-> << >>, cache |-> cache,
     observers |-> observers, observersByKey |-> observersByKey,
     observerResultsCache |-> observerResultsCache,
     recomputations |-> recomputations, called |-> called]

\* Object.assign({ key }, observer); arg tells whether the key is the id alone
ObserverRef(o, arg) == [key |-> getObserverKey(o, arg), id |-> o, arg |-> arg]

\* addObserver of selector s
ClosureAddObserver(c, s, o, result, arg) ==
    [c EXCEPT
        !.observerResultsCache[s] =
            CacheSet(@, getObserverKey(o, arg), ResultRecord(result, arg)),
        !.observers[s] =
            IF HasKey(c.observersByKey[s], getObserverKey(o, arg)) THEN @
            ELSE Append(@, ObserverRef(o, arg)),
        !.observersByKey[s] =
            IF HasKey(@, getObserverKey(o, arg)) THEN @
            ELSE ObjectSet(@, ObserverRef(o, arg))]

\* stackedSelectors.forEach(selector => selector.addObserver(...)), from
\* the frame i on
RECURSIVE ClosureAddToStack(_, _, _, _, _)
ClosureAddToStack(c, i, o, result, arg) ==
    IF i > Len(c.stackedSelectors) THEN c
    ELSE ClosureAddToStack(
             ClosureAddObserver(c, c.stackedSelectors[i], o, result, arg),
             i + 1, o, result, arg)

\* the observer proxy
ClosureObserver(c, o, arg) ==
    [c |-> ClosureAddToStack(c, 1, o, resultFunc(o, c.state, arg), arg),
     val |-> resultFunc(o, c.state, arg), thrown |-> FALSE]

\* mergeObservers of selector p, called with the observers of selector s
ClosureMergeObservers(c, p, s) ==
    [c EXCEPT
        !.observersByKey[p] = ObjectAssign(@, c.observersByKey[s]),
        !.observerResultsCache[p] = AssignCaches(@, c.observerResultsCache[s]),
        !.observers[p] =
            ObjectValues(ObjectAssign(c.observersByKey[p], c.observersByKey[s]))]

\* "Share observer dependencies with the parent selectors", from frame i on
RECURSIVE ClosureShareFrom(_, _, _)
ClosureShareFrom(c, i, s) ==
    IF i > Len(c.stackedSelectors) THEN c
    ELSE ClosureShareFrom(ClosureMergeObservers(c, c.stackedSelectors[i], s),
                          i + 1, s)

\* dependenciesChanged of selector s from the observer i on: the engine
\* after it, whether a change was found, and whether it threw a TypeError
RECURSIVE ClosureDependenciesChangedFrom(_, _, _)

\* the comparison of newResult with prev.result, and what follows
ClosureCompare(c, s, i, observer, prev, newResult) ==
    IF ~isEqual(observer.id, newResult, ResultOf(prev))
    THEN [c |-> [c EXCEPT !.observerResultsCache[s] =
                              CacheSet(@, observer.key, newResult),
                          !.cache[s] = CacheClear(@)],
          changed |-> TRUE, thrown |-> FALSE]
    ELSE ClosureDependenciesChangedFrom(c, s, i + 1)

\* one iteration of the loop, with prev = prevResults.get(observer.key)
ClosureReplay(c, s, i, observer, prev) ==
    IF ~HasProperties(prev) THEN [c |-> c, changed |-> FALSE, thrown |-> TRUE]
    ELSE ClosureCompare(c, s, i, observer, prev,
                        resultFunc(observer.id, c.state, ArgOf(prev)))

ClosureDependenciesChangedFrom(c, s, i) ==
    IF i > Len(c.observers[s])
    THEN [c |-> c, changed |-> FALSE, thrown |-> FALSE]
    ELSE ClosureReplay(c, s, i, c.observers[s][i],
                       CacheGetValue(c.observerResultsCache[s],
                                     c.observers[s][i].key))

RECURSIVE ClosureSelector(_, _)

\* the selectors of the context: getRes and getSum = getB() + getRes()
ClosureGetResBody(r1) ==
    IF r1.val.v < 1 THEN Plus(r1.val.v, ClosureObserver(r1.c, getB, Undefined))
    ELSE r1
ClosureGetSumBody(r1) == Plus(r1.val.v, ClosureSelector(r1.c, "getRes"))
ClosureComputeFunc(s, c) ==
    CASE s = "getRes" -> ClosureGetResBody(ClosureObserver(c, getA, Undefined))
      [] s = "getSum" -> ClosureGetSumBody(ClosureObserver(c, getB, Undefined))

\* the end of selector(): the observers are shared with the selectors on
\* the stack and the result is returned
ClosureShare(c, s, result) ==
    [c |-> ClosureShareFrom(c, 1, s), val |-> result, thrown |-> FALSE]

\* computeResult and stackedSelectors.pop(), given the outcome r of
\* computeFunc: an exception leaves selector() at once
ClosureComputed(s, r) ==
    IF r.thrown THEN r
    ELSE ClosureShare(
             [r.c EXCEPT !.cache[s] = CacheSet(@, _UNDEFINED_,
                                               [present |-> TRUE, result |-> r.val]),
                         !.recomputations[s] = @ + 1,
                         !.stackedSelectors = Pop(@)],
             s, r.val)

\* the else branch of selector()
ClosureCompute(c, s) ==
    ClosureComputed(s, ClosureComputeFunc(s,
        [c EXCEPT !.stackedSelectors = Append(@, s), !.called[s] = @ + 1]))

\* selector() once cache.has(cacheKey) gave true: d is the outcome of
\* dependenciesChanged()
ClosureCached(s, d) ==
    IF d.thrown THEN [c |-> d.c, val |-> Undefined, thrown |-> TRUE]
    ELSE IF d.changed THEN ClosureCompute(d.c, s)
    ELSE ClosureShare(d.c, s, d.c.cache[s][_UNDEFINED_].result)

\* function selector(), called without arguments
ClosureSelector(c, s) ==
    IF _UNDEFINED_ \in DOMAIN c.cache[s]
    THEN ClosureCached(s, ClosureDependenciesChangedFrom(c, s, 1))
    ELSE ClosureCompute(c, s)

ClosureOutcome(s, r) ==
    /\ \A x \in AllSelectors : r.c.called[x] <= MaxCount
    /\ callStack' = r.c.stackedSelectors
    /\ cache' = r.c.cache
    /\ observers' = r.c.observers
    /\ observersByKey' = r.c.observersByKey
    /\ observerResultsCache' = r.c.observerResultsCache
    /\ recomputations' = r.c.recomputations
    /\ called' = r.c.called
    /\ last' = [NoOp EXCEPT !.op = "invoke", !.sel = s, !.val = r.val,
                             !.thrown = r.thrown]
    /\ UNCHANGED <<selectors, state, state2, numObservers, history, threw,
                   mocked, cleared, observerIds>>

\* a call of the selector from outside any computation
ClosureInvoke(s) == ClosureOutcome(s, ClosureSelector(ClosureMachine, s))

\* one context of src/index.js with the selectors getRes and getSum
ClosureFixtures == { {"getRes", "getSum"} }

InitClosure ==
    /\ selectors \in ClosureFixtures
    /\ state \in ApiStates(selectors)
    /\ state2 = NoState
    /\ Created

NextClosure ==
    \/ \E newState \in ApiStates(selectors) : SetState(newState)
    \/ \E s \in selectors : ClosureInvoke(s)

SpecClosure == InitClosure /\ [][NextClosure]_vars

\* C38 (as claimed): every observer in the list of a selector has a stored
\* record { result, arg }, and no call of a selector fails in change
\* detection
C38_RecordsComplete ==
    /\ \A s \in selectors : \A i \in 1..Len(observers[s]) :
          /\ observers[s][i].key \in DOMAIN observerResultsCache[s]
          /\ observerResultsCache[s][observers[s][i].key].t = "record"
    /\ last.op = "invoke" => ~last.thrown
====
